---- MODULE Spec2Model ----
(***************************************************************************)
(* Model of app.py: a LINE webhook relay with a per-user "translation      *)
(* assistant" mode kept in a bounded OrderedDict, and a Gemini call        *)
(* wrapped in a catch-all.                                                 *)
(*                                                                         *)
(* Strings are sequences of tokens.  The token " " is a whitespace         *)
(* character; every other token is a piece of text that neither starts nor *)
(* ends with whitespace.                                                   *)
(***************************************************************************)
EXTENDS Integers, Sequences, FiniteSets, TLC

\* ---------------------------------------------------------------- bounds
NumUsers == 3          \* user identifiers 1..NumUsers
MAX_USERS == 2         \* app.py:36 sets 1000; scaled down so that eviction happens

Users == 1..NumUsers

\* ---------------------------------------------------------------- strings
WS == " "
ACTIVATE_CMD == <<"on">>        \* the activate command text, app.py:108
DEACTIVATE_CMD == <<"off">>     \* the deactivate command text, app.py:112

\* message texts: a command or another text, with or without whitespace
\* around it
Cores == {ACTIVATE_CMD, DEACTIVATE_CMD, <<"on", WS, "off">>}
Pads == {<<>>, <<WS>>}
RawTexts == {l \o c \o r : l \in Pads, c \in Cores, r \in Pads}

RECURSIVE LStrip(_)
LStrip(s) == IF s # <<>> /\ Head(s) = WS THEN LStrip(Tail(s)) ELSE s

RECURSIVE RStrip(_)
RStrip(s) ==
    IF s # <<>> /\ s[Len(s)] = WS THEN RStrip(SubSeq(s, 1, Len(s) - 1)) ELSE s

\* str.strip(): drop leading and trailing whitespace
Strip(s) == RStrip(LStrip(s))

\* fixed reply texts
ACTIVATED_TEXT == <<"ACTIVATED">>              \* app.py:110
DEACTIVATED_TEXT == <<"DEACTIVATED">>          \* app.py:115
NOT_IN_MODE_TEXT == <<"NOT_IN_MODE">>          \* app.py:117
GEMINI_ERROR_TEXT == <<"GEMINI_ERROR">>        \* app.py:66
HANDLER_ERROR_TEXT == <<"HANDLER_ERROR">>      \* app.py:137
FOLLOW_TEXT == <<"FOLLOW_WELCOME">>            \* app.py:160

\* contents of prompt_config.md, or NoFile when reading it fails
NoFile == <<"<no file>">>
TemplateFiles == {NoFile, <<>>, <<WS, "TPL", WS>>}

\* what the Gemini call can do: raise, or return a response text
GenFail == [ok |-> FALSE, text |-> <<>>]
GenOk(t) == [ok |-> TRUE, text |-> t]
GenOutcomes == {GenFail, GenOk(<<WS, "X", WS>>)}
GptOutcomes == GenOutcomes \cup {GenOk(<<"Y">>)}

Signatures == {"valid", "forged"}
EventKinds == {"text", "postback", "memberJoined", "follow", "other"}

ABSENT == "absent"
Modes == {"translating", "idle"}

VARIABLES
    user_status,       \* the OrderedDict: sequence of [uid, status], oldest first
    PROMPT_TEMPLATE,   \* read once at start-up
    before,            \* history: user_status before the last operation
    set_order,         \* history (SpecStore): users by their most recent set, oldest first
    hist,              \* history (SpecStore): per user "never", "removed" or the value last set
    last_op,           \* history: the store operation last performed
    request,           \* the last webhook request
    http_status,       \* status returned for it (0: none yet)
    outbound,          \* LINE API calls made while handling it
    upstream,          \* Gemini calls made while handling it
    gpt,               \* the last direct GPT_response call (SpecGPT)
    prev_gpt,          \* the direct GPT_response call before that (SpecGPT)
    pc,                \* per user, where its in-flight handler stands (SpecConc)
    errors             \* users whose handler had a store operation raise (SpecConc)

vars == <<user_status, PROMPT_TEMPLATE, before, set_order, hist, last_op,
          request, http_status, outbound, upstream, gpt, prev_gpt, pc, errors>>

\* ---------------------------------------------------------------- OrderedDict
Keys(d) == {d[i].uid : i \in 1..Len(d)}

RECURSIVE Without(_, _)
Without(d, uid) ==
    IF d = <<>> THEN <<>>
    ELSE IF Head(d).uid = uid THEN Without(Tail(d), uid)
    ELSE <<Head(d)>> \o Without(Tail(d), uid)

\* OrderedDict.get(uid)
Get(d, uid) ==
    IF uid \in Keys(d)
    THEN (CHOOSE e \in {d[i] : i \in 1..Len(d)} : e.uid = uid).status
    ELSE ABSENT

\* faulty variant: an existing key is overwritten where it stands (no move_to_end)
MoveToEnd_Stay(d, uid) == d

\* OrderedDict.move_to_end(uid): the key becomes the newest
MoveToEnd(d, uid) ==
    Without(d, uid) \o <<[uid |-> uid, status |-> Get(d, uid)]>>

\* faulty variant: an existing key keeps its old value (setdefault)
SetItem_KeepOld(d, uid, status) ==
    IF uid \in Keys(d) THEN d ELSE Append(d, [uid |-> uid, status |-> status])

\* d[uid] = status: overwrite in place, or append a new key
SetItem(d, uid, status) ==
    IF uid \in Keys(d)
    THEN [i \in 1..Len(d) |->
            IF d[i].uid = uid THEN [uid |-> uid, status |-> status] ELSE d[i]]
    ELSE Append(d, [uid |-> uid, status |-> status])

\* OrderedDict.popitem(last=False)
PopFirst(d) == Tail(d)

\* faulty variant: removes the key only when its value is "translating"
Pop_IfTranslating(d, uid) ==
    IF Get(d, uid) = "translating" THEN Without(d, uid) ELSE d

\* faulty variant: the entry is kept and marked "idle"
Pop_MarkIdle(d, uid) == SetItem(d, uid, "idle")

\* OrderedDict.pop(uid, None)
Pop(d, uid) == Without(d, uid)

\* faulty variant: the cap is tested one entry too late
set_user_status_OffByOne(d, uid, status) ==
    LET moved == IF uid \in Keys(d) THEN MoveToEnd(d, uid) ELSE d
        assigned == SetItem(moved, uid, status)
    IN  IF Len(assigned) > MAX_USERS + 1 THEN PopFirst(assigned) ELSE assigned

set_user_status(d, uid, status) ==
    LET moved == IF uid \in Keys(d) THEN MoveToEnd(d, uid) ELSE d
        assigned == SetItem(moved, uid, status)
    IN  IF Len(assigned) > MAX_USERS THEN PopFirst(assigned) ELSE assigned

\* ---------------------------------------------------------------- Gemini
NoCall == [text |-> <<>>, prompt |-> <<>>, calls |-> <<>>, result |-> <<>>]

\* faulty variant: the previous answer, the fallback text included, is kept and
\* returned for the same prompt
GPT_response_Memo(text, outcome) ==
    LET prompt == PROMPT_TEMPLATE \o <<"\n\n">> \o Strip(text)
    IN  IF gpt # NoCall /\ gpt.prompt = prompt
        THEN [text |-> text, prompt |-> prompt, calls |-> <<>>, result |-> gpt.result]
        ELSE [text |-> text,
              prompt |-> prompt,
              calls |-> <<[prompt |-> prompt, outcome |-> outcome]>>,
              result |-> IF outcome.ok THEN Strip(outcome.text) ELSE GEMINI_ERROR_TEXT]

\* faulty variant: a failed generate_content call is tried once more
GPT_response_Retry(text, outcome) ==
    LET prompt == PROMPT_TEMPLATE \o <<"\n\n">> \o Strip(text)
        call == [prompt |-> prompt, outcome |-> outcome]
    IN  [text |-> text,
         prompt |-> prompt,
         calls |-> IF outcome.ok THEN <<call>> ELSE <<call, call>>,
         result |-> IF outcome.ok THEN Strip(outcome.text) ELSE GEMINI_ERROR_TEXT]

\* GPT_response(text) when the single generate_content call does `outcome`
GPT_response(text, outcome) ==
    LET prompt == PROMPT_TEMPLATE \o <<"\n\n">> \o Strip(text)
    IN  [text |-> text,
         prompt |-> prompt,
         calls |-> <<[prompt |-> prompt, outcome |-> outcome]>>,
         result |-> IF outcome.ok THEN Strip(outcome.text) ELSE GEMINI_ERROR_TEXT]

TranslationPrompt(msg) == <<"TRANSLATE:">> \o msg \o <<"\n\n", "LIMIT300">>

\* faulty variant: the message goes upstream without the translation instructions
handle_translation_mode_Raw(msg, outcome) == GPT_response(msg, outcome)

\* faulty variant: the text is echoed back without asking upstream
handle_translation_mode_Echo(msg, outcome) ==
    [text |-> msg, prompt |-> <<>>, calls |-> <<>>, result |-> msg]

handle_translation_mode(msg, outcome) == GPT_response(TranslationPrompt(msg), outcome)

GeneralPrompt(msg) == <<"ANSWER:">> \o msg

\* ---------------------------------------------------------------- handlers
NoOp == [op |-> "none", uid |-> 0, status |-> ABSENT]

ApiCall(api, text, ok) == [api |-> api, text |-> text, ok |-> ok]

\* faulty variant: the deactivate branch acknowledges but forgets to remove the entry
MessageBranch_NoPop(d, uid, msg, gen) ==
    IF msg = ACTIVATE_CMD THEN
        [store |-> set_user_status(d, uid, "translating"),
         op |-> [op |-> "set", uid |-> uid, status |-> "translating"],
         reply_text |-> ACTIVATED_TEXT, upstream |-> <<>>]
    ELSE IF msg = DEACTIVATE_CMD THEN
        IF Get(d, uid) = "translating" THEN
            [store |-> d, op |-> NoOp,
             reply_text |-> DEACTIVATED_TEXT, upstream |-> <<>>]
        ELSE
            [store |-> d, op |-> NoOp,
             reply_text |-> NOT_IN_MODE_TEXT, upstream |-> <<>>]
    ELSE IF Get(d, uid) = "translating" THEN
        LET g == handle_translation_mode(msg, gen)
        IN  [store |-> d, op |-> NoOp, reply_text |-> g.result, upstream |-> g.calls]
    ELSE
        LET g == GPT_response(GeneralPrompt(msg), gen)
        IN  [store |-> d, op |-> NoOp, reply_text |-> g.result, upstream |-> g.calls]

\* faulty variant: reading the mode of a Translating user refreshes its entry
MessageBranch_TouchOnRead(d, uid, msg, gen) ==
    IF msg = ACTIVATE_CMD THEN
        [store |-> set_user_status(d, uid, "translating"),
         op |-> [op |-> "set", uid |-> uid, status |-> "translating"],
         reply_text |-> ACTIVATED_TEXT, upstream |-> <<>>]
    ELSE IF msg = DEACTIVATE_CMD THEN
        IF Get(d, uid) = "translating" THEN
            [store |-> Pop(d, uid),
             op |-> [op |-> "pop", uid |-> uid, status |-> ABSENT],
             reply_text |-> DEACTIVATED_TEXT, upstream |-> <<>>]
        ELSE
            [store |-> d, op |-> NoOp,
             reply_text |-> NOT_IN_MODE_TEXT, upstream |-> <<>>]
    ELSE IF Get(d, uid) = "translating" THEN
        LET g == handle_translation_mode(msg, gen)
        IN  [store |-> MoveToEnd(d, uid), op |-> NoOp,
             reply_text |-> g.result, upstream |-> g.calls]
    ELSE
        LET g == GPT_response(GeneralPrompt(msg), gen)
        IN  [store |-> d, op |-> NoOp, reply_text |-> g.result, upstream |-> g.calls]

\* try-block of handle_message up to the reply call (app.py:108-126)
MessageBranch(d, uid, msg, gen) ==
    IF msg = ACTIVATE_CMD THEN
        [store |-> set_user_status(d, uid, "translating"),
         op |-> [op |-> "set", uid |-> uid, status |-> "translating"],
         reply_text |-> ACTIVATED_TEXT, upstream |-> <<>>]
    ELSE IF msg = DEACTIVATE_CMD THEN
        IF Get(d, uid) = "translating" THEN
            [store |-> Pop(d, uid),
             op |-> [op |-> "pop", uid |-> uid, status |-> ABSENT],
             reply_text |-> DEACTIVATED_TEXT, upstream |-> <<>>]
        ELSE
            [store |-> d, op |-> NoOp,
             reply_text |-> NOT_IN_MODE_TEXT, upstream |-> <<>>]
    ELSE IF Get(d, uid) = "translating" THEN
        LET g == handle_translation_mode(msg, gen)
        IN  [store |-> d, op |-> NoOp, reply_text |-> g.result, upstream |-> g.calls]
    ELSE
        LET g == GPT_response(GeneralPrompt(msg), gen)
        IN  [store |-> d, op |-> NoOp, reply_text |-> g.result, upstream |-> g.calls]

\* faulty variant: the except block logs the error and sends nothing
handle_message_NoFallback(d, event, gen, api) ==
    LET msg == Strip(event.text)
        b == MessageBranch(d, event.uid, msg, gen)
        first == ApiCall("reply", b.reply_text, api[1])
    IN  [store |-> b.store, op |-> b.op, upstream |-> b.upstream,
         outbound |-> <<first>>,
         raised |-> FALSE]

\* faulty variant: the generic text is sent in a finally block, after every
\* message
handle_message_AlwaysFallback(d, event, gen, api) ==
    LET msg == Strip(event.text)
        b == MessageBranch(d, event.uid, msg, gen)
        first == ApiCall("reply", b.reply_text, api[1])
        second == ApiCall("reply", HANDLER_ERROR_TEXT, api[2])
    IN  [store |-> b.store, op |-> b.op, upstream |-> b.upstream,
         outbound |-> <<first, second>>,
         raised |-> ~api[2]]

\* faulty variant: the sender's identifier is appended to the prompt
handle_message_TagUser(d, event, gen, api) ==
    LET msg == Strip(event.text)
        b == MessageBranch(d, event.uid, msg, gen)
        first == ApiCall("reply", b.reply_text, api[1])
        second == ApiCall("reply", HANDLER_ERROR_TEXT, api[2])
    IN  [store |-> b.store, op |-> b.op,
         upstream |-> [i \in DOMAIN b.upstream |->
                         [b.upstream[i] EXCEPT !.prompt = @ \o <<event.uid>>]],
         outbound |-> IF api[1] THEN <<first>> ELSE <<first, second>>,
         raised |-> ~api[1] /\ ~api[2]]

\* handle_message: api[1], api[2] tell whether the first and the second
\* reply_message call succeed
handle_message(d, event, gen, api) ==
    LET msg == Strip(event.text)
        b == MessageBranch(d, event.uid, msg, gen)
        first == ApiCall("reply", b.reply_text, api[1])
        second == ApiCall("reply", HANDLER_ERROR_TEXT, api[2])
    IN  [store |-> b.store, op |-> b.op, upstream |-> b.upstream,
         outbound |-> IF api[1] THEN <<first>> ELSE <<first, second>>,
         raised |-> ~api[1] /\ ~api[2]]

\* handle_postback only prints
handle_postback(d, event) ==
    [store |-> d, op |-> NoOp, upstream |-> <<>>, outbound |-> <<>>, raised |-> FALSE]

\* an event kind no handler is registered for
Unhandled(d) ==
    [store |-> d, op |-> NoOp, upstream |-> <<>>, outbound |-> <<>>, raised |-> FALSE]

\* welcome: api[1] is get_group_member_profile, api[2] is reply_message
welcome(d, event, api) ==
    LET profile == ApiCall("profile", <<>>, api[1])
        reply == ApiCall("reply", <<"NAME", "WELCOME">>, api[2])
    IN  [store |-> d, op |-> NoOp, upstream |-> <<>>,
         outbound |-> IF api[1] THEN <<profile, reply>> ELSE <<profile>>,
         raised |-> ~api[1] \/ ~api[2]]

\* handle_follow: api[1] is push_message
handle_follow(d, event, api) ==
    [store |-> d, op |-> NoOp, upstream |-> <<>>,
     outbound |-> <<ApiCall("push", FOLLOW_TEXT, api[1])>>,
     raised |-> ~api[1]]

\* WebhookHandler.handle after the signature check: the handler registered
\* for the event's kind, none for any other kind
Dispatch(d, event, gen, api) ==
    CASE event.kind = "text" -> handle_message(d, event, gen, api)
      [] event.kind = "postback" -> handle_postback(d, event)
      [] event.kind = "memberJoined" -> welcome(d, event, api)
      [] event.kind = "follow" -> handle_follow(d, event, api)
      [] OTHER -> Unhandled(d)

SignatureValid(signature) == signature = "valid"

\* faulty variant: the events are handled before the signature is looked at
callback_HandleFirst(d, signature, event, gen, api) ==
    LET r == Dispatch(d, event, gen, api)
    IN  [store |-> r.store, op |-> r.op, upstream |-> r.upstream,
         outbound |-> r.outbound, raised |-> r.raised,
         status |-> IF ~SignatureValid(signature) THEN 400
                    ELSE IF r.raised THEN 500 ELSE 200]

\* callback(): the result of one POST /callback
callback(d, signature, event, gen, api) ==
    IF ~SignatureValid(signature)
    THEN [store |-> d, op |-> NoOp, upstream |-> <<>>, outbound |-> <<>>,
          raised |-> FALSE, status |-> 400]
    ELSE LET r == Dispatch(d, event, gen, api)
         IN  [store |-> r.store, op |-> r.op, upstream |-> r.upstream,
              outbound |-> r.outbound, raised |-> r.raised,
              status |-> IF r.raised THEN 500 ELSE 200]

\* ---------------------------------------------------------------- history
RECURSIVE Remove(_, _)
Remove(s, x) ==
    IF s = <<>> THEN <<>>
    ELSE IF Head(s) = x THEN Remove(Tail(s), x)
    ELSE <<Head(s)>> \o Remove(Tail(s), x)

Record(op) ==
    /\ last_op' = op
    /\ before' = user_status

RecordOrder(op) ==
    /\ set_order' = CASE op.op = "set" -> Append(Remove(set_order, op.uid), op.uid)
                      [] op.op = "pop" -> Remove(set_order, op.uid)
                      [] OTHER -> set_order
    /\ hist' = CASE op.op = "set" -> [hist EXCEPT ![op.uid] = op.status]
                 [] op.op = "pop" -> [hist EXCEPT ![op.uid] = "removed"]
                 [] OTHER -> hist

\* ---------------------------------------------------------------- actions
Events ==
    {[kind |-> k, uid |-> u, text |-> t] :
        k \in {"text"}, u \in Users, t \in RawTexts}
    \cup {[kind |-> k, uid |-> u, text |-> <<>>] :
        k \in EventKinds \ {"text"}, u \in Users}

NoRequest == [signature |-> "", event |-> [kind |-> "none", uid |-> 0, text |-> <<>>]]

Init ==
    /\ user_status = <<>>
    /\ \E f \in TemplateFiles :
          PROMPT_TEMPLATE = IF f = NoFile THEN <<>> ELSE Strip(f)
    /\ before = <<>>
    /\ set_order = <<>>
    /\ hist = [u \in Users |-> "never"]
    /\ last_op = NoOp
    /\ request = NoRequest
    /\ http_status = 0
    /\ outbound = <<>>
    /\ upstream = <<>>
    /\ gpt = NoCall
    /\ prev_gpt = NoCall
    /\ pc = [u \in Users |-> "idle"]
    /\ errors = {}

\* one POST /callback, handled to completion
Callback(signature, event, gen, api) ==
    LET r == callback(user_status, signature, event, gen, api)
    IN  /\ request' = [signature |-> signature, event |-> event]
        /\ user_status' = r.store
        /\ http_status' = r.status
        /\ outbound' = r.outbound
        /\ upstream' = r.upstream
        /\ Record(r.op)
        /\ UNCHANGED <<PROMPT_TEMPLATE, set_order, hist, gpt, prev_gpt, pc, errors>>

\* the outcomes of the calls a request can make; a call that is never made
\* has no outcome to choose
GenChoices(signature, event) ==
    IF /\ SignatureValid(signature)
       /\ event.kind = "text"
       /\ Strip(event.text) \notin {ACTIVATE_CMD, DEACTIVATE_CMD}
    THEN GenOutcomes
    ELSE {GenFail}

ApiChoices(signature, event) ==
    IF ~SignatureValid(signature) \/ event.kind \in {"postback", "other"}
    THEN {<<TRUE, TRUE>>}
    ELSE IF event.kind = "follow" THEN {<<TRUE, TRUE>>, <<FALSE, TRUE>>}
    ELSE IF event.kind = "memberJoined"
    THEN {<<TRUE, TRUE>>, <<TRUE, FALSE>>, <<FALSE, TRUE>>}
    ELSE {<<TRUE, TRUE>>, <<FALSE, TRUE>>, <<FALSE, FALSE>>}

Next ==
    \E signature \in Signatures, event \in Events :
        \E gen \in GenChoices(signature, event),
           api \in ApiChoices(signature, event) :
            Callback(signature, event, gen, api)

Spec == Init /\ [][Next]_vars

\* ---- the store's operations called directly
StoreSet(uid, status) ==
    /\ user_status' = set_user_status(user_status, uid, status)
    /\ Record([op |-> "set", uid |-> uid, status |-> status])
    /\ RecordOrder([op |-> "set", uid |-> uid, status |-> status])
    /\ UNCHANGED <<PROMPT_TEMPLATE, request, http_status, outbound, upstream,
                   gpt, prev_gpt, pc, errors>>

StorePop(uid) ==
    /\ user_status' = Pop(user_status, uid)
    /\ Record([op |-> "pop", uid |-> uid, status |-> ABSENT])
    /\ RecordOrder([op |-> "pop", uid |-> uid, status |-> ABSENT])
    /\ UNCHANGED <<PROMPT_TEMPLATE, request, http_status, outbound, upstream,
                   gpt, prev_gpt, pc, errors>>

NextStore ==
    \/ \E uid \in Users, status \in Modes : StoreSet(uid, status)
    \/ \E uid \in Users : StorePop(uid)

SpecStore == Init /\ [][NextStore]_vars

\* ---- GPT_response called directly
GptTexts ==
    RawTexts \cup {GeneralPrompt(Strip(m)) : m \in RawTexts}
             \cup {TranslationPrompt(Strip(m)) : m \in RawTexts}

CallGPT(text, outcome) ==
    LET g == GPT_response(text, outcome)
    IN  /\ gpt' = g
        /\ prev_gpt' = gpt
        /\ upstream' = g.calls
        /\ UNCHANGED <<user_status, PROMPT_TEMPLATE, before, set_order, hist,
                       last_op, request, http_status, outbound, pc, errors>>

NextGPT == \E text \in GptTexts, outcome \in GptOutcomes : CallGPT(text, outcome)

SpecGPT == Init /\ [][NextGPT]_vars

\* ---- handlers of different users running in parallel threads: each
\* OrderedDict call is one step, the steps of different users interleave,
\* and a user has at most one message in flight
rest == <<PROMPT_TEMPLATE, before, set_order, hist, last_op, request,
          http_status, outbound, upstream, gpt, prev_gpt>>

Goto(u, label) == pc' = [pc EXCEPT ![u] = label]

\* a message arrives: activate, deactivate or another text
Begin(u, label) ==
    /\ pc[u] = "idle"
    /\ Goto(u, label)
    /\ UNCHANGED <<user_status, errors, rest>>

\* app.py:39  if uid in user_status
Contains(u) ==
    /\ pc[u] = "contains"
    /\ Goto(u, IF u \in Keys(user_status) THEN "move" ELSE "assign")
    /\ UNCHANGED <<user_status, errors, rest>>

\* app.py:40  user_status.move_to_end(uid): KeyError when the key is gone
Move(u) ==
    /\ pc[u] = "move"
    /\ IF u \in Keys(user_status)
       THEN /\ user_status' = MoveToEnd(user_status, u)
            /\ Goto(u, "assign")
            /\ UNCHANGED errors
       ELSE /\ errors' = errors \cup {u}
            /\ Goto(u, "idle")
            /\ UNCHANGED user_status
    /\ UNCHANGED rest

\* app.py:41  user_status[uid] = status
Assign(u) ==
    /\ pc[u] = "assign"
    /\ user_status' = SetItem(user_status, u, "translating")
    /\ Goto(u, "len")
    /\ UNCHANGED <<errors, rest>>

\* app.py:42  if len(user_status) > MAX_USERS
CheckLen(u) ==
    /\ pc[u] = "len"
    /\ Goto(u, IF Len(user_status) > MAX_USERS THEN "popitem" ELSE "idle")
    /\ UNCHANGED <<user_status, errors, rest>>

\* app.py:43  user_status.popitem(last=False): KeyError on an empty dict
PopItem(u) ==
    /\ pc[u] = "popitem"
    /\ IF user_status # <<>>
       THEN user_status' = PopFirst(user_status) /\ UNCHANGED errors
       ELSE errors' = errors \cup {u} /\ UNCHANGED user_status
    /\ Goto(u, "idle")
    /\ UNCHANGED rest

\* app.py:113  if user_status.get(uid) == "translating"
GetForPop(u) ==
    /\ pc[u] = "get"
    /\ Goto(u, IF Get(user_status, u) = "translating" THEN "pop" ELSE "idle")
    /\ UNCHANGED <<user_status, errors, rest>>

\* app.py:114  user_status.pop(uid, None)
PopOwn(u) ==
    /\ pc[u] = "pop"
    /\ user_status' = Pop(user_status, u)
    /\ Goto(u, "idle")
    /\ UNCHANGED <<errors, rest>>

\* app.py:119  elif user_status.get(uid) == "translating"
GetForPrompt(u) ==
    /\ pc[u] = "read"
    /\ Goto(u, "idle")
    /\ UNCHANGED <<user_status, errors, rest>>

NextConc ==
    \E u \in Users :
        \/ \E label \in {"contains", "get", "read"} : Begin(u, label)
        \/ Contains(u)
        \/ Move(u)
        \/ Assign(u)
        \/ CheckLen(u)
        \/ PopItem(u)
        \/ GetForPop(u)
        \/ PopOwn(u)
        \/ GetForPrompt(u)

SpecConc == Init /\ [][NextConc]_vars

\* ================================================================ claims
\* what the last request was
Handled == SignatureValid(request.signature) /\ request.event.kind = "text"
sender == request.event.uid

\* the text of the last message without the whitespace around it, stated
\* without str.strip()
Trimmed(text) == CHOOSE c \in Cores : \E l \in Pads, r \in Pads : text = l \o c \o r
sent == Trimmed(request.event.text)
IsCommand(m) == m \in {ACTIVATE_CMD, DEACTIVATE_CMD}

\* ---- C3
\* C3: after every completed set_user_status call, whatever messages any
\* users sent, the store holds at most MAX_USERS entries.
Thm_C3_Capacity == Len(user_status) <= MAX_USERS

\* an activate from a new user arrived at a full store, and the store is
\* still full
Wit_C3_Capacity ==
    /\ Handled /\ sent = ACTIVATE_CMD
    /\ Len(before) = MAX_USERS
    /\ sender \notin Keys(before)
    /\ Len(user_status) = MAX_USERS

\* ---- C4
\* the entry of d whose most recent set is the oldest
Oldest(d, order) ==
    LET idx == {i \in 1..Len(order) : order[i] \in Keys(d)}
    IN  order[CHOOSE i \in idx : \A j \in idx : i <= j]

\* C4: a set that makes the store exceed the cap removes exactly one entry,
\* the one whose most recent set is the oldest, and never the user just set;
\* any other set removes nothing.
Thm_C4_EvictionOrder ==
    [][ last_op'.op = "set" =>
          LET u == last_op'.uid
          IN  IF u \notin Keys(user_status) /\ Len(user_status) = MAX_USERS
              THEN Keys(user_status') =
                     (Keys(user_status) \cup {u}) \ {Oldest(user_status, set_order)}
              ELSE Keys(user_status') = Keys(user_status) \cup {u} ]_vars

\* a set evicted a user that had been inserted after the surviving one
Wit_C4_EvictionOrder ==
    /\ last_op.op = "set"
    /\ Len(before) = MAX_USERS
    /\ last_op.uid \notin Keys(before)
    /\ Head(before).uid \notin Keys(user_status)
    /\ Keys(user_status) = (Keys(before) \cup {last_op.uid}) \ {Head(before).uid}

\* ---- C5
\* C5: last write wins: right after set(u, v), get(u) = v whatever was set
\* before; an entry always holds the value of the most recent set on its
\* user; and no user has two entries.
Thm_C5_LastWriteWins ==
    /\ last_op.op = "set" => Get(user_status, last_op.uid) = last_op.status
    /\ \A u \in Users :
          Get(user_status, u) # ABSENT => Get(user_status, u) = hist[u]
    /\ Cardinality(Keys(user_status)) = Len(user_status)

\* set(u, "idle") on a user whose entry said "translating"
Wit_C5_LastWriteWins ==
    /\ last_op.op = "set" /\ last_op.status = "idle"
    /\ Get(before, last_op.uid) = "translating"
    /\ Get(user_status, last_op.uid) = "idle"

\* ---- C6
\* C6: get(u) is absent for a user never set, and after remove(u) until the
\* next set on u, whatever value u had.
Thm_C6_Absence ==
    \A u \in Users : hist[u] \in {"never", "removed"} => Get(user_status, u) = ABSENT

\* remove(u) on a user whose entry said "idle"
Wit_C6_Absence ==
    /\ last_op.op = "pop"
    /\ Get(before, last_op.uid) = "idle"
    /\ Get(user_status, last_op.uid) = ABSENT
    /\ \E u \in Users : hist[u] = "never"

\* ---- C1
\* C1: handle_message moves the sender's mode by the trimmed text: activate
\* makes the sender Translating whatever the mode before; deactivate makes a
\* Translating sender Idle (no entry); any other text leaves the sender's
\* mode as it was.
Thm_C1_ModeTransitions ==
    Handled =>
        /\ sent = ACTIVATE_CMD => Get(user_status, sender) = "translating"
        /\ (sent = DEACTIVATE_CMD /\ Get(before, sender) = "translating")
              => Get(user_status, sender) = ABSENT
        /\ ~IsCommand(sent) => Get(user_status, sender) = Get(before, sender)

\* a Translating user sent the deactivate command with whitespace around it
Wit_C1_ModeTransitions ==
    /\ Handled
    /\ request.event.text = <<WS>> \o DEACTIVATE_CMD \o <<WS>>
    /\ Get(before, sender) = "translating"
    /\ Get(user_status, sender) = ABSENT

\* ---- C2
\* what GPT_response returns for an outcome of the upstream call
Generated(outcome) ==
    IF outcome.ok THEN SelectSeq(outcome.text, LAMBDA c : c # WS)
    ELSE GEMINI_ERROR_TEXT

\* the reply is the generation result of `prompt`: one upstream call with
\* that prompt behind the template, and its result as the reply text
AnsweredFrom(prompt) ==
    /\ Len(upstream) = 1
    /\ upstream[1].prompt = PROMPT_TEMPLATE \o <<"\n\n">> \o prompt
    /\ outbound[1].text = Generated(upstream[1].outcome)

\* C2: the reply follows the mode: the activation acknowledgment for
\* activate, the deactivation acknowledgment for a deactivate sent while
\* Translating, the generation result of the translation prompt for another
\* text from a Translating user, and of the general prompt from an Idle user.
Thm_C2_ReplySelection ==
    Handled =>
        /\ outbound # <<>> /\ outbound[1].api = "reply"
        /\ sent = ACTIVATE_CMD => outbound[1].text = ACTIVATED_TEXT
        /\ (sent = DEACTIVATE_CMD /\ Get(before, sender) = "translating")
              => outbound[1].text = DEACTIVATED_TEXT
        /\ (~IsCommand(sent) /\ Get(before, sender) = "translating")
              => AnsweredFrom(<<"TRANSLATE:">> \o sent \o <<"\n\n", "LIMIT300">>)
        /\ (~IsCommand(sent) /\ Get(before, sender) # "translating")
              => AnsweredFrom(<<"ANSWER:">> \o sent)

\* a Translating user sent another text and got the translation back
Wit_C2_ReplySelection ==
    /\ Handled /\ ~IsCommand(sent)
    /\ Get(before, sender) = "translating"
    /\ Len(upstream) = 1 /\ upstream[1].outcome.ok
    /\ outbound = <<ApiCall("reply", <<"X">>, TRUE)>>

\* ---- C7
\* C7: of two successive GPT_response calls with the same composed prompt,
\* the first of which got an answer, the second does not call upstream and
\* returns the same result.
Cex_C7_Memoized ==
    (/\ prev_gpt # NoCall
     /\ prev_gpt.calls # <<>> /\ prev_gpt.calls[1].outcome.ok
     /\ gpt.prompt = prev_gpt.prompt)
        => gpt.calls = <<>> /\ gpt.result = prev_gpt.result

\* ---- C8
\* C8: a failed upstream call is not remembered: the call that failed
\* returned the fallback text, and the next call with the same prompt calls
\* upstream again and returns what upstream answers then.
Thm_C8_NoPoisoning ==
    (/\ prev_gpt # NoCall
     /\ Len(prev_gpt.calls) = 1 /\ ~prev_gpt.calls[1].outcome.ok
     /\ gpt.prompt = prev_gpt.prompt)
        => /\ prev_gpt.result = GEMINI_ERROR_TEXT
           /\ Len(gpt.calls) = 1
           /\ gpt.calls[1].prompt = gpt.prompt
           /\ gpt.result = Generated(gpt.calls[1].outcome)

\* the same prompt failed and then was answered
Wit_C8_NoPoisoning ==
    /\ prev_gpt # NoCall /\ gpt.prompt = prev_gpt.prompt
    /\ Len(prev_gpt.calls) = 1 /\ ~prev_gpt.calls[1].outcome.ok
    /\ Len(gpt.calls) = 1 /\ gpt.calls[1].outcome.ok
    /\ gpt.result = <<"Y">>

\* ---- C9
\* C9: a message makes at most one upstream call and GPT_response returns
\* without raising (the reply call is reached); when the upstream call failed
\* the text handed to the reply call is the fixed fallback text, and if that
\* reply call succeeds it is the only message sent and the request ends 200.
Thm_C9_FailClosed ==
    Handled =>
        /\ Len(upstream) <= 1
        /\ outbound # <<>>
        /\ (upstream # <<>> /\ ~upstream[1].outcome.ok) =>
              /\ outbound[1] = ApiCall("reply", GEMINI_ERROR_TEXT, outbound[1].ok)
              /\ outbound[1].ok => Len(outbound) = 1 /\ http_status = 200

\* the upstream call failed and the fallback text was replied
Wit_C9_FailClosed ==
    /\ Handled
    /\ Len(upstream) = 1 /\ ~upstream[1].outcome.ok
    /\ outbound = <<ApiCall("reply", GEMINI_ERROR_TEXT, TRUE)>>
    /\ http_status = 200

\* ---- C10
\* C10: a request whose signature does not match gets 400, runs no handler,
\* sends nothing, calls nothing upstream and leaves the store as it was.
Thm_C10_SignatureRejection ==
    (request # NoRequest /\ ~SignatureValid(request.signature)) =>
        /\ http_status = 400
        /\ outbound = <<>>
        /\ upstream = <<>>
        /\ user_status = before
        /\ last_op = NoOp

\* a forged activate command from an Idle user was rejected
Wit_C10_SignatureRejection ==
    /\ request.signature = "forged"
    /\ request.event.kind = "text" /\ sent = ACTIVATE_CMD
    /\ http_status = 400
    /\ Get(user_status, sender) = ABSENT
    /\ user_status # <<>>

\* ---- C11
\* C11: every request whose signature validates is answered 200, whatever
\* happens in the handlers.
Cex_C11_Always200 ==
    (request # NoRequest /\ SignatureValid(request.signature)) => http_status = 200

Cex_C13_ConcurrentSafe ==
    /\ errors = {}
    /\ (\A u \in Users : pc[u] = "idle") => Len(user_status) <= MAX_USERS

\* ---- C14
\* C14: a message that is no command leaves the store as it was, contents and
\* order; a Translating user stops being Translating only by its own
\* deactivate, or by being the oldest entry of a full store when another,
\* new user activates; a deactivate touches no entry but the sender's; a
\* request that reaches no message handler changes nothing.
Thm_C14_Frame ==
    /\ ~Handled => user_status = before
    /\ Handled =>
        /\ ~IsCommand(sent) => user_status = before
        /\ sent = DEACTIVATE_CMD =>
              Without(user_status, sender) = Without(before, sender)
        /\ \A u \in Users :
              (Get(before, u) = "translating" /\ Get(user_status, u) # "translating")
                 => \/ u = sender /\ sent = DEACTIVATE_CMD
                    \/ /\ sent = ACTIVATE_CMD
                       /\ u # sender
                       /\ sender \notin Keys(before)
                       /\ Len(before) = MAX_USERS
                       /\ u = Head(before).uid

\* a Translating user sent another text while the newer entry was another
\* user's, and the store stayed as it was
Wit_C14_Frame ==
    /\ Handled /\ ~IsCommand(sent)
    /\ Len(before) = MAX_USERS
    /\ Head(before).uid = sender
    /\ user_status = before
    /\ Len(upstream) = 1

\* ---- C15
\* C15: every entry of the store has the value "translating"; a deactivate
\* from a user without an entry leaves the store as it was and is answered
\* with the 'not in translation mode' text.
Thm_C15_StoreValues ==
    /\ \A i \in 1..Len(user_status) : user_status[i].status = "translating"
    /\ (Handled /\ sent = DEACTIVATE_CMD /\ Get(before, sender) = ABSENT) =>
          /\ user_status = before
          /\ outbound[1].text = NOT_IN_MODE_TEXT
          /\ outbound[1].text # DEACTIVATED_TEXT

\* a user without an entry sent deactivate while others were Translating
Wit_C15_StoreValues ==
    /\ Handled /\ sent = DEACTIVATE_CMD
    /\ Get(before, sender) = ABSENT
    /\ before # <<>>
    /\ outbound = <<ApiCall("reply", NOT_IN_MODE_TEXT, TRUE)>>

\* ---- C16
\* C16: a command makes no upstream call; any other text makes exactly one,
\* in either mode, whether or not the call fails.
Thm_C16_UpstreamCount ==
    Handled => Len(upstream) = (IF IsCommand(sent) THEN 0 ELSE 1)

\* a Translating user's text made one upstream call, which failed
Wit_C16_UpstreamCount ==
    /\ Handled /\ ~IsCommand(sent)
    /\ Get(before, sender) = "translating"
    /\ Len(upstream) = 1 /\ ~upstream[1].outcome.ok

\* ---- C17
\* C17: one message event makes at most two reply calls; the second carries
\* the generic fallback text and is made only after the first call raised;
\* at most one reply is delivered; a first call that succeeds is the only one.
Thm_C17_ReplyCount ==
    Handled =>
        /\ Len(outbound) \in {1, 2}
        /\ \A i \in 1..Len(outbound) : outbound[i].api = "reply"
        /\ Len(outbound) = 2 =>
              ~outbound[1].ok /\ outbound[2].text = HANDLER_ERROR_TEXT
        /\ Cardinality({i \in 1..Len(outbound) : outbound[i].ok}) <= 1
        /\ outbound[1].ok => Len(outbound) = 1

\* both reply calls of one event failed
Wit_C17_ReplyCount ==
    /\ Handled
    /\ Len(outbound) = 2
    /\ ~outbound[1].ok /\ ~outbound[2].ok

\* ---- C18
\* every store the program can hold
AltStores ==
    {[i \in 1..Len(q) |-> [uid |-> q[i], status |-> "translating"]] :
        q \in {q \in UNION {[1..n -> Users] : n \in 0..MAX_USERS} :
                  \A i \in 1..Len(q), j \in 1..Len(q) : q[i] = q[j] => i = j}}

Prompts(calls) == [i \in DOMAIN calls |-> calls[i].prompt]

\* C18: the prompt sent upstream depends only on the sender's mode and the
\* trimmed text: the same message, with any whitespace around it, from any
\* user in the same mode over any store sends the prompt that was sent.
Thm_C18_NoCrossUser ==
    (Handled /\ ~IsCommand(sent)) =>
        \A d2 \in AltStores, u2 \in Users :
            Get(d2, u2) = Get(before, sender) =>
                \A t2 \in {t \in RawTexts : Trimmed(t) = sent} :
                    Prompts(handle_message(d2,
                                [kind |-> "text", uid |-> u2, text |-> t2],
                                GenFail, <<TRUE, TRUE>>).upstream)
                        = Prompts(upstream)

\* a Translating user's text went upstream while another user was
\* Translating too
Wit_C18_NoCrossUser ==
    /\ Handled /\ ~IsCommand(sent)
    /\ Get(before, sender) = "translating"
    /\ Len(before) = MAX_USERS
    /\ Len(upstream) = 1 /\ upstream[1].outcome.ok
    /\ request.event.text # sent

====
